---- MODULE Spec2Model ----
(***************************************************************************)
(* Model of next13-prisma-supabase-auth: the two Prisma tables and the     *)
(* provider's auth.users table, the functions and triggers installed by    *)
(* lib/seedTriggers.ts, and the request handlers of the pages.             *)
(***************************************************************************)
EXTENDS Integers, Sequences, FiniteSets, TLC

\* ---------------------------------------------------------------- bounds
MaxUsers == 2
MaxNotes == 2
MaxSeedRuns == 2
MaxParams == 2

UserIds == 1..MaxUsers
NoteIds == 1..MaxNotes

\* CREATE TYPE "Role" AS ENUM ('admin', 'user')
Role == {"admin", "user"}
\* a column default of 'admin'
DefaultRoleAdmin == "admin"

\* "role" "Role" NOT NULL DEFAULT 'user'
DefaultRole == "user"

AUTH_USERS == "auth.users"
PROFILE == "public.profile"
NOTE == "public.note"

VARIABLES
    functions,    \* pg_proc: function name -> body
    triggers,     \* pg_trigger: sequence of [name, table, event, func]
    seedPc,       \* next statement of main() in seedTriggers.ts (1..4)
    seedRuns,     \* completed runs of the seed script
    authUsers,    \* ids of the rows of auth.users
    profile,      \* public.profile: id -> role
    note,         \* public.note: id -> userId
    nextUserId,   \* next id the provider generates for a user
    nextNoteId,   \* next id generated for a note
    sqlState,     \* outcome of the last SQL statement on the tables
    origin,       \* origin the application is served from
    session,      \* user id in the session cookie, NoSession when absent
    pending,      \* request in flight: <<>> or <<[path, query, cause]>>
    shown,        \* page the browser shows, "" before the first one
    resp,         \* response of the last request handled
    email,        \* Login component state
    password,
    errorMessage,
    trail         \* requests handled since the user's last navigation

dbVars == <<functions, triggers, seedPc, seedRuns, authUsers, profile, note,
            nextUserId, nextNoteId, sqlState>>
webVars == <<origin, session, pending, shown, resp, email, password, errorMessage,
             trail>>
vars == <<dbVars, webVars>>

\* ------------------------------------------------------ trigger functions
\* body of public.handle_new_user(): insert into public.profile (id) values (new.id)
handle_new_user == [stmt |-> "insert", table |-> PROFILE, idFrom |-> "new"]
\* the delete function reading new.id, which is null after a delete
handle_user_delete_new == [stmt |-> "delete", table |-> "auth.users", idFrom |-> "new"]

\* body of public.handle_user_delete(): delete from auth.users where id = old.id
handle_user_delete == [stmt |-> "delete", table |-> AUTH_USERS, idFrom |-> "old"]

on_auth_user_created ==
    [name |-> "on_auth_user_created", table |-> AUTH_USERS, event |-> "insert",
     func |-> "handle_new_user"]
\* the profile trigger declared "after insert"
on_profile_user_inserted ==
    [name |-> "on_profile_user_deleted", table |-> "public.profile", event |-> "insert",
     func |-> "handle_user_delete"]

on_profile_user_deleted ==
    [name |-> "on_profile_user_deleted", table |-> PROFILE, event |-> "delete",
     func |-> "handle_user_delete"]

\* create or replace function <name> ... : one entry per name
CreateOrReplaceFunction(fs, name, body) ==
    [n \in DOMAIN fs \cup {name} |-> IF n = name THEN body ELSE fs[n]]

\* create trigger without "or replace": a second catalog row of the same name
CreateTriggerAppend(ts, t) == Append(ts, t)

\* create or replace trigger <name> ... : replaces the row of that name
CreateOrReplaceTrigger(ts, t) ==
    IF \E i \in 1..Len(ts) : ts[i].name = t.name
    THEN [i \in 1..Len(ts) |-> IF ts[i].name = t.name THEN t ELSE ts[i]]
    ELSE Append(ts, t)

\* --------------------------------------------------------- SQL execution
\* A statement runs on a working copy d of the tables; d.ok = FALSE is an
\* error raised inside the statement, which rolls the whole statement back.
Tables == [users |-> authUsers, profile |-> profile, note |-> note, ok |-> TRUE]

Restrict(f, S) == [x \in S |-> f[x]]

TrigsFor(table, event) ==
    SelectSeq(triggers, LAMBDA t : t.table = table /\ t.event = event)

\* SQL null in an id column
NullId == 0

\* the row lands in the table, or a constraint rejects it
RawInsert(table, row, d) ==
    CASE row.id = NullId -> [d EXCEPT !.ok = FALSE]   \* "id" UUID NOT NULL
      [] table = AUTH_USERS ->
           IF row.id \in d.users THEN [d EXCEPT !.ok = FALSE]
           ELSE [d EXCEPT !.users = @ \cup {row.id}]
      [] table = PROFILE ->
           \* CONSTRAINT "profile_pkey" PRIMARY KEY ("id")
           IF row.id \in DOMAIN d.profile THEN [d EXCEPT !.ok = FALSE]
           ELSE [d EXCEPT !.profile =
                   [i \in DOMAIN @ \cup {row.id} |->
                      IF i = row.id
                      THEN (IF "role" \in DOMAIN row THEN row.role ELSE DefaultRole)
                      ELSE @[i]]]
      [] table = NOTE ->
           \* "note_pkey" and "note_userId_fkey" REFERENCES "profile"("id")
           IF row.id \in DOMAIN d.note \/ row.userId \notin DOMAIN d.profile
           THEN [d EXCEPT !.ok = FALSE]
           ELSE [d EXCEPT !.note =
                   [i \in DOMAIN @ \cup {row.id} |->
                      IF i = row.id THEN row.userId ELSE @[i]]]

\* a foreign key without ON DELETE CASCADE semantics: notes stay behind
RawDeleteNoCascade(table, id, d) ==
    CASE table = AUTH_USERS -> [d EXCEPT !.users = @ \ {id}]
      [] table = PROFILE -> [d EXCEPT !.profile = Restrict(@, DOMAIN @ \ {id})]
      [] table = NOTE -> [d EXCEPT !.note = Restrict(@, DOMAIN @ \ {id})]

\* the row leaves the table; ON DELETE CASCADE removes the profile's notes
RawDelete(table, id, d) ==
    CASE table = AUTH_USERS -> [d EXCEPT !.users = @ \ {id}]
      [] table = PROFILE ->
           [d EXCEPT !.profile = Restrict(@, DOMAIN @ \ {id}),
                     !.note = Restrict(@, {n \in DOMAIN @ : @[n] # id})]
      [] table = NOTE -> [d EXCEPT !.note = Restrict(@, DOMAIN @ \ {id})]

HasRow(table, id, d) ==
    CASE table = AUTH_USERS -> id \in d.users
      [] table = PROFILE -> id \in DOMAIN d.profile
      [] table = NOTE -> id \in DOMAIN d.note

RECURSIVE ExecInsert(_, _, _), ExecDelete(_, _, _), Fire(_, _, _)

\* new.id / old.id inside a trigger function: new is null in a delete
\* trigger, old is null in an insert trigger
RowRef(idFrom, event, row) ==
    IF (idFrom = "new" /\ event = "insert") \/ (idFrom = "old" /\ event = "delete")
    THEN row.id ELSE NullId

\* for each row execute procedure <func>(): the triggers of the event, in turn
Fire(ts, row, d) ==
    IF ts = <<>> \/ ~d.ok THEN d
    ELSE LET body == functions[Head(ts).func]
             id == RowRef(body.idFrom, Head(ts).event, row)
             d1 == IF body.stmt = "insert"
                   THEN ExecInsert(body.table, [id |-> id], d)
                   ELSE ExecDelete(body.table, id, d)
         IN  Fire(Tail(ts), row, d1)

\* insert into <table> ..., then its AFTER INSERT row triggers
ExecInsert(table, row, d) ==
    IF ~d.ok THEN d
    ELSE LET d1 == RawInsert(table, row, d)
         IN  IF d1.ok THEN Fire(TrigsFor(table, "insert"), row, d1) ELSE d1

\* delete from <table> where id = ..., then its AFTER DELETE row triggers
ExecDelete(table, id, d) ==
    IF ~d.ok \/ ~HasRow(table, id, d) THEN d
    ELSE Fire(TrigsFor(table, "delete"), [id |-> id], RawDelete(table, id, d))

\* commit or roll back the statement's result
Commit(d, op, table) ==
    /\ authUsers' = IF d.ok THEN d.users ELSE authUsers
    /\ profile' = IF d.ok THEN d.profile ELSE profile
    /\ note' = IF d.ok THEN d.note ELSE note
    /\ sqlState' = [op |-> op, table |-> table, ok |-> d.ok]


\* ---------------------------------------------------- lib/seedTriggers.ts
SeedStmt(n) ==
    /\ seedPc = n
    /\ seedPc' = IF n = 4 THEN 1 ELSE n + 1
    /\ seedRuns' = IF n = 4 THEN seedRuns + 1 ELSE seedRuns
    /\ UNCHANGED <<authUsers, profile, note, nextUserId, nextNoteId, sqlState>>
    /\ UNCHANGED webVars

CreateHandleNewUser ==
    /\ seedRuns < MaxSeedRuns
    /\ SeedStmt(1)
    /\ functions' = CreateOrReplaceFunction(functions, "handle_new_user", handle_new_user)
    /\ UNCHANGED triggers

CreateOnAuthUserCreated ==
    /\ SeedStmt(2)
    /\ triggers' = CreateOrReplaceTrigger(triggers, on_auth_user_created)
    /\ UNCHANGED functions

CreateHandleUserDelete ==
    /\ SeedStmt(3)
    /\ functions' = CreateOrReplaceFunction(functions, "handle_user_delete", handle_user_delete)
    /\ UNCHANGED triggers

CreateOnProfileUserDeleted ==
    /\ SeedStmt(4)
    /\ triggers' = CreateOrReplaceTrigger(triggers, on_profile_user_deleted)
    /\ UNCHANGED functions

main ==
    \/ CreateHandleNewUser
    \/ CreateOnAuthUserCreated
    \/ CreateHandleUserDelete
    \/ CreateOnProfileUserDeleted

\* ------------------------------------------- statements run on the tables
catalogVars == <<functions, triggers, seedPc, seedRuns>>

\* the provider inserts a row into auth.users (id generated by the provider)
InsertAuthUser ==
    /\ nextUserId <= MaxUsers
    /\ Commit(ExecInsert(AUTH_USERS, [id |-> nextUserId], Tables), "insert", AUTH_USERS)
    /\ nextUserId' = nextUserId + 1
    /\ UNCHANGED <<catalogVars, nextNoteId, webVars>>

\* delete from auth.users where id = u (provider dashboard / admin API)
DeleteAuthUser(u) ==
    /\ u \in authUsers
    /\ Commit(ExecDelete(AUTH_USERS, u, Tables), "delete", AUTH_USERS)
    /\ UNCHANGED <<catalogVars, nextUserId, nextNoteId, webVars>>

\* delete from public.profile where id = u
DeleteProfile(u) ==
    /\ u \in DOMAIN profile
    /\ Commit(ExecDelete(PROFILE, u, Tables), "delete", PROFILE)
    /\ UNCHANGED <<catalogVars, nextUserId, nextNoteId, webVars>>

\* update public.profile set role = r where id = u
UpdateRole(u, r) ==
    /\ u \in DOMAIN profile
    /\ profile[u] # r
    /\ profile' = [profile EXCEPT ![u] = r]
    /\ sqlState' = [op |-> "update", table |-> PROFILE, ok |-> TRUE]
    /\ UNCHANGED <<catalogVars, authUsers, note, nextUserId, nextNoteId, webVars>>

\* insert into public.note (id, text, "userId") values (uuid, ..., u)
InsertNote(u) ==
    /\ nextNoteId <= MaxNotes
    /\ Commit(ExecInsert(NOTE, [id |-> nextNoteId, userId |-> u], Tables), "insert", NOTE)
    /\ nextNoteId' = nextNoteId + 1
    /\ UNCHANGED <<catalogVars, nextUserId, webVars>>

\* delete from public.note where id = n
DeleteNote(n) ==
    /\ n \in DOMAIN note
    /\ Commit(ExecDelete(NOTE, n, Tables), "delete", NOTE)
    /\ UNCHANGED <<catalogVars, nextUserId, nextNoteId, webVars>>


\* ------------------------------------------------------------- the pages
NoSession == 0
Origins == {"http://localhost:3000", "https://app.example"}
HOME == "/"
LOGIN == "/login"
ADMIN == "/admin"
CALLBACK == "/auth/callback"

CodeVals == {"", "abc"}
Param == [key : {"code"}, val : CodeVals] \cup {[key |-> "next", val |-> "/admin"]}
Queries == UNION {[1..n -> Param] : n \in 0..MaxParams}

\* data.session?.user
HasUser(s) == s # NoSession

\* a lookup that ignores the key and returns the first row of the table
findFirstRow(id) ==
    IF DOMAIN profile = {} THEN {}
    ELSE LET i == CHOOSE j \in DOMAIN profile : \A k \in DOMAIN profile : j >= k
         IN  {[id |-> i, role |-> profile[i]]}

\* prisma.profile.findUnique({ where: { id } }): {} is null
findUnique(id) ==
    IF id \in DOMAIN profile THEN {[id |-> id, role |-> profile[id]]} ELSE {}

\* prisma.note.findMany({ where: { userId } })
findMany(userId) == {n \in DOMAIN note : note[n] = userId}

\* profile?.role
OptRole(p) == IF p = {} THEN "undefined" ELSE (CHOOSE r \in p : TRUE).role

\* requestUrl.searchParams.get(name): <<>> is null, else the first value
RECURSIVE get(_, _)
get(q, name) ==
    IF q = <<>> THEN <<>>
    ELSE IF Head(q).key = name THEN <<Head(q).val>> ELSE get(Tail(q), name)

\* if (code !== null): only null is rejected
NotNull(code) == code # <<>>

\* if (code): null and "" are falsy
Truthy(code) == code # <<>> /\ code[1] # ""

Base == [kind |-> "", target |-> "", queries |-> {}, h1 |-> "",
         rows |-> {}, exchanged |-> FALSE]
Redirect(r, target) == [r EXCEPT !.kind = "redirect", !.target = target]
Render(r, h1) == [r EXCEPT !.kind = "render", !.h1 = h1]
Queried(r, table, key, rows) ==
    [r EXCEPT !.queries = @ \cup {[table |-> table, key |-> key]}, !.rows = rows]

\* app/page.tsx
Home(s) ==
    IF ~HasUser(s) THEN Redirect(Base, LOGIN)
    ELSE Render(Queried(Base, NOTE, s, findMany(s)), "Protected page")

\* the admin page with the profile lookup ahead of the session check
AdminHomeLookupFirst(s) ==
    LET r == Queried(Base, PROFILE, s, findUnique(s))
    IN  IF ~HasUser(s) THEN Redirect(r, LOGIN)
        ELSE IF OptRole(findUnique(s)) # "admin" THEN Redirect(r, HOME)
        ELSE Render(r, "Admin page")

\* the admin page turning away only the role "user"
AdminHomeRejectUser(s) ==
    IF ~HasUser(s) THEN Redirect(Base, LOGIN)
    ELSE LET p == findUnique(s)
             r == Queried(Base, PROFILE, s, p)
         IN  IF OptRole(p) = "user" THEN Redirect(r, HOME)
             ELSE Render(r, "Admin page")

\* app/admin/page.tsx
AdminHome(s) ==
    IF ~HasUser(s) THEN Redirect(Base, LOGIN)
    ELSE LET p == findUnique(s)
             r == Queried(Base, PROFILE, s, p)
         IN  IF OptRole(p) # "admin" THEN Redirect(r, HOME)
             ELSE Render(r, "Admin page")

\* the login page sending a signed-in user to the admin page
LoginPageToAdmin(s) ==
    IF HasUser(s) THEN Redirect(Base, ADMIN) ELSE Render(Base, "Login")

\* the login page without the session check
LoginPageAlwaysForm(s) == Render(Base, "Login")

\* app/login/page.tsx
LoginPage(s) ==
    IF HasUser(s) THEN Redirect(Base, HOME) ELSE Render(Base, "Login")

\* app/auth/callback/route.ts, the response: the exchange itself is the
\* provider's and is applied by ServeCallback
GET(requestUrl) ==
    LET code == get(requestUrl.query, "code")
    IN  Redirect([Base EXCEPT !.exchanged = Truthy(code)], requestUrl.origin)

\* ------------------------------------------------------------ the browser
Req(path, query, cause) == <<[path |-> path, query |-> query, cause |-> cause]>>

\* path a redirect target leads to: an origin is that origin's root
PathOf(target) == IF target \in Origins THEN HOME ELSE target

formVars == <<email, password, errorMessage>>

\* the browser follows a redirect, or shows the rendered page; the Login
\* component's state goes away with the login page
Respond(r) ==
    LET req == pending[1]
    IN  /\ resp' = [page |-> req.path, cause |-> req.cause, kind |-> r.kind,
                    target |-> r.target, queries |-> r.queries, h1 |-> r.h1,
                    rows |-> r.rows, exchanged |-> r.exchanged]
        /\ trail' = Append(trail, [page |-> req.path, kind |-> r.kind])
        /\ IF r.kind = "redirect"
           THEN /\ pending' = Req(PathOf(r.target), <<>>, req.cause)
                /\ UNCHANGED <<shown, formVars>>
           ELSE /\ pending' = <<>>
                /\ shown' = req.path
                /\ IF req.path = LOGIN THEN UNCHANGED formVars
                   ELSE email' = "" /\ password' = "" /\ errorMessage' = ""

Requested(path) == pending # <<>> /\ pending[1].path = path

\* the user follows a link of the layout or enters the address
Visit(path) ==
    /\ pending = <<>>
    /\ pending' = Req(path, <<>>, "visit")
    /\ trail' = <<>>
    /\ UNCHANGED <<dbVars, origin, session, shown, resp, formVars>>

\* the provider (or anyone) sends the browser to the callback route
VisitCallback(query) ==
    /\ pending = <<>>
    /\ pending' = Req(CALLBACK, query, "visit")
    /\ trail' = <<>>
    /\ UNCHANGED <<dbVars, origin, session, shown, resp, formVars>>

ServeHome ==
    /\ Requested(HOME)
    /\ Respond(Home(session))
    /\ UNCHANGED <<dbVars, origin, session>>

ServeAdmin ==
    /\ Requested(ADMIN)
    /\ Respond(AdminHome(session))
    /\ UNCHANGED <<dbVars, origin, session>>

ServeLogin ==
    /\ Requested(LOGIN)
    /\ Respond(LoginPage(session))
    /\ UNCHANGED <<dbVars, origin, session>>

\* supabase.auth.exchangeCodeForSession(code): the provider accepts the
\* code for one of its users, or rejects it
ServeCallback ==
    /\ Requested(CALLBACK)
    /\ LET r == GET([origin |-> origin, path |-> CALLBACK, query |-> pending[1].query])
       IN  /\ Respond(r)
           /\ IF r.exchanged
              THEN \E u \in authUsers \cup {NoSession} :
                      session' = IF u = NoSession THEN session ELSE u
              ELSE UNCHANGED session
    /\ UNCHANGED <<dbVars, origin>>

\* ------------------------------------------- app/_components/Login.tsx
AuthErrors == {"User already registered", "Invalid login credentials",
               "Database error saving new user"}

\* router.refresh(): the current route is requested again
refresh(cause) == pending' = Req(shown, <<>>, cause) /\ trail' = <<>>

\* onChange={(e) => setEmail(e.target.value)}
Emails == {"", "a@b.io"}
setEmail(value) ==
    /\ shown = LOGIN
    /\ email' = value
    /\ UNCHANGED <<dbVars, origin, session, pending, shown, resp, password,
                   errorMessage, trail>>

\* onChange={(e) => setPassword(e.target.value)}
Passwords == {"", "secret"}
setPassword(value) ==
    /\ shown = LOGIN
    /\ password' = value
    /\ UNCHANGED <<dbVars, origin, session, pending, shown, resp, email,
                   errorMessage, trail>>

handleSignUp ==
    /\ shown = LOGIN
    /\ \/ \* the provider rejects the credentials
          /\ errorMessage' = "User already registered"
          /\ UNCHANGED <<dbVars, session, pending, trail>>
       \/ \* the provider inserts the user; no e-mail confirmation, so the
          \* user is signed in
          /\ nextUserId <= MaxUsers
          /\ LET d == ExecInsert(AUTH_USERS, [id |-> nextUserId], Tables)
             IN  /\ Commit(d, "insert", AUTH_USERS)
                 /\ nextUserId' = nextUserId + 1
                 /\ IF d.ok
                    THEN /\ session' = nextUserId
                         /\ refresh("signup")
                         /\ UNCHANGED errorMessage
                    ELSE /\ errorMessage' = "Database error saving new user"
                         /\ UNCHANGED <<session, pending, trail>>
          /\ UNCHANGED <<catalogVars, nextNoteId>>
    /\ UNCHANGED <<origin, shown, resp, email, password>>

\* sign-in that also clears the message once the provider accepts
handleSignInClearsError ==
    /\ shown = LOGIN
    /\ \/ /\ errorMessage' = "Invalid login credentials"
          /\ UNCHANGED <<session, pending, trail>>
       \/ \E u \in authUsers :
            /\ session' = u
            /\ refresh("signin")
            /\ errorMessage' = ""
    /\ UNCHANGED <<dbVars, origin, shown, resp, email, password>>

handleSignIn ==
    /\ shown = LOGIN
    /\ \/ /\ errorMessage' = "Invalid login credentials"
          /\ UNCHANGED <<session, pending, trail>>
       \/ \E u \in authUsers :
            /\ session' = u
            /\ refresh("signin")
            /\ UNCHANGED errorMessage
    /\ UNCHANGED <<dbVars, origin, shown, resp, email, password>>

\* app/_components/Logout.tsx
handleSignOut ==
    /\ shown # ""
    /\ session' = NoSession
    /\ refresh("signout")
    /\ UNCHANGED <<dbVars, origin, shown, resp, formVars>>

\* ---------------------------------------------------------- specifications
NoResp == [page |-> "", cause |-> "", kind |-> "", target |-> "", queries |-> {},
           h1 |-> "", rows |-> {}, exchanged |-> FALSE]

\* the database after the migration, before the seed script; no browser yet
Init ==
    /\ functions = <<>>
    /\ triggers = <<>>
    /\ seedPc = 1
    /\ seedRuns = 0
    /\ authUsers = {}
    /\ profile = <<>>
    /\ note = <<>>
    /\ nextUserId = 1
    /\ nextNoteId = 1
    /\ sqlState = [op |-> "", table |-> "", ok |-> TRUE]
    /\ origin = "http://localhost:3000"
    /\ session = NoSession
    /\ pending = <<>>
    /\ shown = ""
    /\ resp = NoResp
    /\ email = ""
    /\ password = ""
    /\ errorMessage = ""
    /\ trail = <<>>

DbNext ==
    \/ main
    \/ InsertAuthUser
    \/ \E u \in UserIds : DeleteAuthUser(u)
    \/ \E u \in UserIds : DeleteProfile(u)
    \/ \E u \in UserIds, r \in Role : UpdateRole(u, r)
    \/ \E u \in UserIds : InsertNote(u)
    \/ \E n \in NoteIds : DeleteNote(n)

PageNext ==
    \/ \E p \in {HOME, LOGIN, ADMIN} : Visit(p)
    \/ ServeHome
    \/ ServeAdmin
    \/ ServeLogin
    \/ handleSignUp
    \/ handleSignIn
    \/ handleSignOut

CallbackNext ==
    \/ \E q \in Queries : VisitCallback(q)
    \/ ServeCallback

\* the application starts on a database whose setup (`npm run migrate-dev`:
\* migration, then the seed script) has run, or on one where the seed script
\* has not run yet
InitApp ==
    /\ \/ /\ functions = <<>>
          /\ triggers = <<>>
          /\ seedRuns = 0
       \/ /\ functions = CreateOrReplaceFunction(
                            CreateOrReplaceFunction(<<>>, "handle_new_user",
                                                    handle_new_user),
                            "handle_user_delete", handle_user_delete)
          /\ triggers = CreateOrReplaceTrigger(
                           CreateOrReplaceTrigger(<<>>, on_auth_user_created),
                           on_profile_user_deleted)
          /\ seedRuns = 1
    /\ seedPc = 1
    /\ authUsers = {}
    /\ profile = <<>>
    /\ note = <<>>
    /\ nextUserId = 1
    /\ nextNoteId = 1
    /\ sqlState = [op |-> "", table |-> "", ok |-> TRUE]
    /\ origin \in Origins
    /\ session = NoSession
    /\ pending = <<>>
    /\ shown = ""
    /\ resp = NoResp
    /\ email = ""
    /\ password = ""
    /\ errorMessage = ""
    /\ trail = <<>>

Next ==
    \/ PageNext
    \/ CallbackNext
    \/ \E u \in UserIds : DeleteAuthUser(u)
    \/ \E u \in UserIds : DeleteProfile(u)
    \/ \E u \in UserIds, r \in Role : UpdateRole(u, r)

\* the user at the login form: typing, the two buttons, and the navigation
\* that mounts and unmounts the form
FormNext ==
    \/ PageNext
    \/ \E v \in Emails : setEmail(v)
    \/ \E v \in Passwords : setPassword(v)

\* the application's own operations only: nothing touches the tables from
\* outside
AppNext ==
    \/ PageNext
    \/ CallbackNext

SpecApp == InitApp /\ [][AppNext]_vars
SpecForm == InitApp /\ [][FormNext]_vars
SpecDb == Init /\ [][DbNext]_vars
Spec == InitApp /\ [][Next]_vars


\* ------------------------------------------------------------ properties
Rendered == resp.kind = "render"
RedirectedTo(r, target) == r.kind = "redirect" /\ r.target = target /\ r.h1 = ""

\* C1: a request to a protected page ("/" or "/admin") without a session
\* user is answered by a redirect to /login, with no page content and no
\* query on note or profile.
C1_NoSessionRedirectsToLogin ==
    [][((ServeHome \/ ServeAdmin) /\ ~HasUser(session))
         => /\ RedirectedTo(resp', LOGIN)
            /\ resp'.queries = {}
            /\ resp'.rows = {}]_vars

C1_Witness ==
    /\ resp.page = ADMIN
    /\ resp.target = LOGIN
    /\ session = NoSession
    /\ DOMAIN profile # {}

\* C2: a request to the admin page with a session looks the profile up by
\* the session user's id, and a profile whose role is not admin is
\* redirected to "/".
C2_AdminLooksUpSessionUser ==
    [][(ServeAdmin /\ HasUser(session))
         => /\ resp'.queries = {[table |-> PROFILE, key |-> session]}
            /\ \A row \in resp'.rows : row.id = session /\ row.role = profile[session]
            /\ (session \in DOMAIN profile /\ profile[session] # "admin")
                 => (resp'.rows # {} /\ RedirectedTo(resp', HOME))]_vars

C2_Witness ==
    /\ resp.page = ADMIN
    /\ resp.kind = "redirect"
    /\ resp.target = HOME
    /\ \E row \in resp.rows : row.role = "user"
    /\ \E u \in DOMAIN profile : profile[u] = "admin"

\* C6: the login page redirects a request with a session user to "/" and
\* renders the form only without one; so the refresh after a successful
\* sign-up or sign-in ends on "/".
C6_LoginRedirectsSignedIn ==
    [][/\ (ServeLogin /\ HasUser(session)) => RedirectedTo(resp', HOME)
       /\ (ServeLogin /\ resp'.kind = "render")
            => (~HasUser(session) /\ resp'.h1 = "Login" /\ shown' = LOGIN)
       /\ (resp'.kind = "render" /\ resp'.cause \in {"signup", "signin"})
            => (resp'.page = HOME /\ shown' = HOME)]_vars

C6_Witness ==
    /\ resp.cause = "signup"
    /\ Rendered
    /\ resp.page = HOME
    /\ shown = HOME
    /\ HasUser(session)

\* value of the request's code parameter: that of its first occurrence
CodeParam(q) ==
    LET idx == {i \in 1..Len(q) : q[i].key = "code"}
    IN  IF idx = {} THEN <<>>
        ELSE <<q[CHOOSE i \in idx : \A j \in idx : i <= j].val>>

\* C9: the callback route exchanges the code exactly when the request has
\* a non-empty code parameter, and answers with a redirect to the request's
\* origin in both cases.
C9_CallbackExchangesNonEmptyCode ==
    [][ServeCallback
         => LET code == CodeParam(pending[1].query)
            IN  /\ RedirectedTo(resp', origin)
                /\ resp'.exchanged <=> (code # <<>> /\ code # <<"">>)
                /\ ~(code # <<>> /\ code # <<"">>) => session' = session]_vars

C9_Witness ==
    /\ resp.page = CALLBACK
    /\ resp.exchanged
    /\ HasUser(session)
    /\ resp.target = origin

\* C10: the admin page is rendered only for a session user whose profile
\* row exists with role admin; a session user without a profile row is
\* redirected to "/".
C10_AdminOnlyForAdminProfile ==
    [][ServeAdmin
         => /\ (resp'.kind = "render")
                 => /\ HasUser(session)
                    /\ session \in DOMAIN profile
                    /\ profile[session] = "admin"
                    /\ shown' = ADMIN
            /\ (HasUser(session) /\ session \notin DOMAIN profile)
                 => RedirectedTo(resp', HOME)
            /\ (resp'.kind # "render") => shown' = shown]_vars

C10_Witness ==
    /\ resp.page = ADMIN
    /\ resp.kind = "redirect"
    /\ resp.target = HOME
    /\ resp.queries # {}
    /\ resp.rows = {}
    /\ HasUser(session)


\* --------------------------------------------------- database properties
InSync == DOMAIN profile = authUsers
Seeded == seedRuns >= 1
LastStmt(op, table) == sqlState = [op |-> op, table |-> table, ok |-> TRUE]

\* C3 as stated: once the triggers are installed, any user creation and any
\* user or profile deletion leaves the ids of public.profile equal to the
\* ids of auth.users.
C3_Original ==
    [][(Seeded /\ InSync) => InSync']_vars

\* C3: once the triggers are installed, user creations and profile
\* deletions (and every statement other than a delete on auth.users itself)
\* keep the ids of public.profile equal to the ids of auth.users.
C3_SyncExceptDirectUserDelete ==
    [][(Seeded /\ InSync /\ ~(\E u \in UserIds : DeleteAuthUser(u))) => InSync']_vars

C3_Witness ==
    /\ Seeded
    /\ InSync
    /\ authUsers # {}
    /\ nextUserId > Cardinality(authUsers) + 1
    /\ LastStmt("delete", PROFILE)

\* C4: with the triggers installed, an insert into auth.users succeeds and
\* creates exactly one profile row, with the new user's id and role user,
\* and adds exactly the new user row.
C4_InsertCreatesProfile ==
    [][(Seeded /\ InsertAuthUser)
         => /\ sqlState'.ok
            /\ authUsers' = authUsers \cup {nextUserId}
            /\ nextUserId \notin DOMAIN profile
            /\ DOMAIN profile' = DOMAIN profile \cup {nextUserId}
            /\ profile'[nextUserId] = "user"
            /\ \A u \in DOMAIN profile : profile'[u] = profile[u]]_vars

C4_Witness ==
    /\ Seeded
    /\ LastStmt("insert", AUTH_USERS)
    /\ nextUserId - 1 \in authUsers
    /\ nextUserId - 1 \in DOMAIN profile
    /\ profile[nextUserId - 1] = "user"

\* C5: with the triggers installed, a delete of a profile row deletes the
\* auth.users row of the same id and no other, so neither table holds the id.
C5_ProfileDeleteDeletesUser ==
    [][/\ (sqlState'.op = "delete" /\ sqlState'.table = PROFILE) => sqlState'.ok
       /\ \A u \in DOMAIN profile :
         (Seeded /\ u \notin DOMAIN profile')
           => /\ sqlState' = [op |-> "delete", table |-> PROFILE, ok |-> TRUE]
              /\ u \notin DOMAIN profile'
              /\ u \notin authUsers'
              /\ authUsers' = authUsers \ {u}
              /\ DOMAIN profile' = DOMAIN profile \ {u}]_vars

C5_Witness ==
    /\ Seeded
    /\ LastStmt("delete", PROFILE)
    /\ authUsers # {}
    /\ \E u \in 1..(nextUserId - 1) : u \notin authUsers /\ u \notin DOMAIN profile

\* C7: running the seed script again leaves the same two functions and two
\* triggers as one run, and a user insert still creates exactly one profile
\* row and does not fail.
C7_SeedIdempotent ==
    /\ [](Seeded =>
            /\ triggers = <<on_auth_user_created, on_profile_user_deleted>>
            /\ DOMAIN functions = {"handle_new_user", "handle_user_delete"}
            /\ functions["handle_new_user"] = handle_new_user
            /\ functions["handle_user_delete"] = handle_user_delete)
    /\ [][(seedRuns >= 2 /\ InsertAuthUser)
            => /\ sqlState'.ok
               /\ DOMAIN profile' = DOMAIN profile \cup {nextUserId}
               /\ nextUserId \in authUsers']_vars

C7_Witness ==
    /\ seedRuns >= 2
    /\ Len(triggers) = 2
    /\ LastStmt("insert", AUTH_USERS)
    /\ nextUserId - 1 \in DOMAIN profile

\* C8: every note's userId is the id of a profile row, and a delete of a
\* profile row deletes exactly the notes of that profile.
C8_NotesReferenceProfiles ==
    /\ [](\A n \in DOMAIN note : note[n] \in DOMAIN profile)
    /\ [][\A u \in DOMAIN profile :
            u \notin DOMAIN profile'
              => /\ DOMAIN note' = {n \in DOMAIN note : note[n] # u}
                 /\ \A n \in DOMAIN note' : note'[n] = note[n]]_vars

C8_Witness ==
    /\ LastStmt("delete", PROFILE)
    /\ DOMAIN note # {}
    /\ nextNoteId - 1 > Cardinality(DOMAIN note)
    /\ DOMAIN profile # {}


\* ------------------------------------------------------- form properties
\* the provider call of a handler returned an error: no session was issued
\* and a message is shown, with no refresh and the inputs as typed
ErrorOutcome ==
    /\ errorMessage' \in AuthErrors
    /\ session' = session
    /\ pending' = pending
    /\ trail' = trail
    /\ email' = email
    /\ password' = password

\* the provider call returned no error: a session, a refresh of the current
\* route, and the three states of the form as they were
SuccessOutcome(cause) ==
    /\ HasUser(session')
    /\ pending' = Req(shown, <<>>, cause)
    /\ errorMessage' = errorMessage
    /\ email' = email
    /\ password' = password

\* C11: in the login form, sign-up and sign-in set the error message to the
\* provider's error and trigger no refresh when the call fails; when it
\* succeeds they trigger a refresh and leave error message, email and
\* password as they were, so a message shown before stays.
C11_FormHandlersOutcome ==
    [][/\ handleSignUp => (ErrorOutcome \/ SuccessOutcome("signup"))
       /\ handleSignIn => (ErrorOutcome \/ SuccessOutcome("signin"))
       /\ (handleSignUp \/ handleSignIn) => (shown' = shown /\ resp' = resp)]_vars

C11_Witness ==
    /\ shown = LOGIN
    /\ errorMessage = "User already registered"
    /\ pending = Req(LOGIN, <<>>, "signin")
    /\ HasUser(session)
    /\ email = "a@b.io"
    /\ password = "secret"


\* -------------------------------------------------- navigation properties
Pages == {HOME, LOGIN, ADMIN}
Redirects(t) == {i \in 1..Len(t) : t[i].kind = "redirect"}

\* C12: a navigation that starts on "/", "/login" or "/admin" is answered
\* with at most one redirect, the request after a redirect is rendered, and
\* no page is requested twice in the chain.
C12_AtMostOneRedirect ==
    (trail # <<>> /\ trail[1].page \in Pages)
      => /\ Len(trail) <= 2
         /\ Cardinality(Redirects(trail)) <= 1
         /\ \A i, j \in 1..Len(trail) : trail[i].page = trail[j].page => i = j
         /\ \A i \in 1..Len(trail) : trail[i].page \in Pages
         /\ IF pending = <<>>
            THEN trail[Len(trail)].kind = "render" /\ shown = trail[Len(trail)].page
            ELSE /\ Len(trail) = 1
                 /\ trail[1].kind = "redirect"
                 /\ pending[1].path \in Pages \ {trail[1].page}

C12_Witness ==
    /\ trail = <<[page |-> ADMIN, kind |-> "redirect"], [page |-> HOME, kind |-> "render"]>>
    /\ HasUser(session)
    /\ pending = <<>>


\* C13: the application's own operations (sign-up, sign-in, sign-out, the
\* callback, visits to the pages) never change a role: every profile has
\* the role user it was created with, and a request to the admin page is
\* never rendered; with a session it is redirected to "/".
C13_AppNeverGrantsAdmin ==
    /\ \A u \in DOMAIN profile : profile[u] = "user"
    /\ DOMAIN profile \subseteq authUsers
    /\ shown # ADMIN
    /\ resp.page = ADMIN
         => /\ resp.kind = "redirect"
            /\ resp.queries # {} => RedirectedTo(resp, HOME)
            /\ \A row \in resp.rows : row.role = "user"

C13_Witness ==
    /\ resp.page = ADMIN
    /\ resp.target = HOME
    /\ resp.rows = {[id |-> session, role |-> "user"]}
    /\ session \in DOMAIN profile
    /\ shown = HOME
    /\ Cardinality(DOMAIN profile) = MaxUsers

====
